---- MODULE Spec2Model ----
(***************************************************************************)
(* Model of app.py: the devotional-calendar service.                       *)
(*   get_qt_schedule        fetch a month's calendar, table pass + list    *)
(*                          pass merged by day key, sorted by int(day)     *)
(*   parse_bible_text       regular-expression driven reference parser     *)
(*   timestamp_to_qt_data_ms  civil date -> schedule -> record -> parser   *)
(*   get_qt_bible_data      the HTTP handler in front of it                *)
(* Text is a sequence of characters, one string each: an ASCII character   *)
(* stands for itself, a Hangul syllable is written in Latin letters        *)
(* ("si", "pyeon"), and "nbsp" stands for U+00A0.                          *)
(* An optional value (Python None) is a sequence of length 0 or 1.         *)
(***************************************************************************)
EXTENDS Integers, Sequences, FiniteSets, TLC

VARIABLES pc, entry, timestamp_ms_str, timezone_str, civil, doc,
          schedule_data, sched, bible, bible_text_input, matches, mi, results,
          log, qt_data, response, nFetch, nParse

vars == <<pc, entry, timestamp_ms_str, timezone_str, civil, doc,
          schedule_data, sched, bible, bible_text_input, matches, mi, results,
          log, qt_data, response, nFetch, nParse>>

None == <<>>
Some(x) == <<x>>

Max(S) == CHOOSE x \in S : \A y \in S : y <= x
Min(S) == CHOOSE x \in S : \A y \in S : x <= y

(***************************************************************************)
(* Character classes of the two patterns.  Hangul is the part of the range *)
(* U+AC00..U+D7A3 that occurs in the book table.                           *)
(***************************************************************************)
Hangul ==
  { "a", "ae", "ba", "bak", "be", "beu", "bil", "bo", "bok", "chang",
    "chul", "da", "dae", "de", "deo", "deu", "di", "do", "dya", "e", "el",
    "eon", "eum", "ga", "gae", "gal", "gel", "gi", "go", "gol", "guk",
    "gup", "gye", "ha", "haeng", "hak", "han", "he", "hi", "ho", "hu",
    "hum", "i", "il", "jam", "jeon", "ma", "mal", "mi", "min", "mo",
    "mon", "mu", "myeong", "na", "neu", "ni", "nu", "nya", "o", "pyeon",
    "ra", "re", "ri", "rin", "rip", "ro", "rok", "rus", "rya", "sa",
    "sae", "sal", "sam", "sang", "se", "seo", "seu", "si", "sin", "so",
    "su", "tae", "wang", "wi", "ya", "ye", "yeo", "yeok", "yeol", "yo",
    "yop", "yu" }
Digit == {"0", "1", "2", "3", "4", "5", "6", "7", "8", "9"}
Space == {" ", "nbsp"}

DigitVal(c) ==
  CASE c = "0" -> 0 [] c = "1" -> 1 [] c = "2" -> 2 [] c = "3" -> 3
    [] c = "4" -> 4 [] c = "5" -> 5 [] c = "6" -> 6 [] c = "7" -> 7
    [] c = "8" -> 8 [] c = "9" -> 9

\* int(s) for a non-empty string of ASCII digits
RECURSIVE int(_)
int(s) ==
  IF Len(s) = 1 THEN DigitVal(s[1])
  ELSE int(SubSeq(s, 1, Len(s) - 1)) * 10 + DigitVal(s[Len(s)])

\* str.strip(): drop leading and trailing whitespace
RECURSIVE lstrip(_)
lstrip(s) == IF s # <<>> /\ Head(s) \in Space THEN lstrip(Tail(s)) ELSE s
RECURSIVE rstrip(_)
rstrip(s) ==
  IF s # <<>> /\ s[Len(s)] \in Space THEN rstrip(SubSeq(s, 1, Len(s) - 1)) ELSE s
strip(s) == rstrip(lstrip(s))

\* str.replace(old, new): leftmost non-overlapping occurrences
RECURSIVE replace(_, _, _)
replace(s, old, new) ==
  IF Len(s) < Len(old) THEN s
  ELSE IF SubSeq(s, 1, Len(old)) = old
       THEN new \o replace(SubSeq(s, Len(old) + 1, Len(s)), old, new)
       ELSE <<Head(s)>> \o replace(Tail(s), old, new)

book_mapping ==
  { <<<<"chang", "se", "gi">>, 1>>,
    <<<<"chul", "ae", "gup", "gi">>, 2>>,
    <<<<"re", "wi", "gi">>, 3>>,
    <<<<"min", "su", "gi">>, 4>>,
    <<<<"sin", "myeong", "gi">>, 5>>,
    <<<<"yeo", "ho", "su", "a">>, 6>>,
    <<<<"sa", "sa", "gi">>, 7>>,
    <<<<"rus", "gi">>, 8>>,
    <<<<"sa", "mu", "el", "sang">>, 9>>,
    <<<<"sa", "mu", "el", "ha">>, 10>>,
    <<<<"yeol", "wang", "gi", "sang">>, 11>>,
    <<<<"yeol", "wang", "gi", "ha">>, 12>>,
    <<<<"yeok", "dae", "sang">>, 13>>,
    <<<<"yeok", "dae", "ha">>, 14>>,
    <<<<"e", "seu", "ra">>, 15>>,
    <<<<"neu", "he", "mi", "ya">>, 16>>,
    <<<<"e", "seu", "deo">>, 17>>,
    <<<<"yop", "gi">>, 18>>,
    <<<<"si", "pyeon">>, 19>>,
    <<<<"jam", "eon">>, 20>>,
    <<<<"jeon", "do", "seo">>, 21>>,
    <<<<"a", "ga">>, 22>>,
    <<<<"i", "sa", "ya">>, 23>>,
    <<<<"ye", "re", "mi", "ya">>, 24>>,
    <<<<"ye", "re", "mi", "ya", "ae", "ga">>, 25>>,
    <<<<"e", "seu", "gel">>, 26>>,
    <<<<"da", "ni", "el">>, 27>>,
    <<<<"ho", "se", "a">>, 28>>,
    <<<<"yo", "el">>, 29>>,
    <<<<"a", "mo", "seu">>, 30>>,
    <<<<"o", "ba", "dya">>, 31>>,
    <<<<"yo", "na">>, 32>>,
    <<<<"mi", "ga">>, 33>>,
    <<<<"na", "hum">>, 34>>,
    <<<<"ha", "bak", "guk">>, 35>>,
    <<<<"seu", "ba", "nya">>, 36>>,
    <<<<"hak", "gae">>, 37>>,
    <<<<"seu", "ga", "rya">>, 38>>,
    <<<<"mal", "ra", "gi">>, 39>>,
    <<<<"ma", "tae", "bok", "eum">>, 40>>,
    <<<<"ma", "ga", "bok", "eum">>, 41>>,
    <<<<"nu", "ga", "bok", "eum">>, 42>>,
    <<<<"yo", "han", "bok", "eum">>, 43>>,
    <<<<"sa", "do", "haeng", "jeon">>, 44>>,
    <<<<"ro", "ma", "seo">>, 45>>,
    <<<<"go", "rin", "do", "jeon", "seo">>, 46>>,
    <<<<"go", "rin", "do", "hu", "seo">>, 47>>,
    <<<<"gal", "ra", "di", "a", "seo">>, 48>>,
    <<<<"e", "be", "so", "seo">>, 49>>,
    <<<<"bil", "rip", "bo", "seo">>, 50>>,
    <<<<"gol", "ro", "sae", "seo">>, 51>>,
    <<<<"de", "sal", "ro", "ni", "ga", "jeon", "seo">>, 52>>,
    <<<<"de", "sal", "ro", "ni", "ga", "hu", "seo">>, 53>>,
    <<<<"di", "mo", "de", "jeon", "seo">>, 54>>,
    <<<<"di", "mo", "de", "hu", "seo">>, 55>>,
    <<<<"di", "do", "seo">>, 56>>,
    <<<<"bil", "re", "mon", "seo">>, 57>>,
    <<<<"hi", "beu", "ri", "seo">>, 58>>,
    <<<<"ya", "go", "bo", "seo">>, 59>>,
    <<<<"be", "deu", "ro", "jeon", "seo">>, 60>>,
    <<<<"be", "deu", "ro", "hu", "seo">>, 61>>,
    <<<<"yo", "han", "il", "seo">>, 62>>,
    <<<<"yo", "han", "i", "seo">>, 63>>,
    <<<<"yo", "han", "sam", "seo">>, 64>>,
    <<<<"yu", "da", "seo">>, 65>>,
    <<<<"yo", "han", "gye", "si", "rok">>, 66>> }

\* book_mapping.get(name): 0 stands for None
book_mapping_get(name) ==
  IF \E e \in book_mapping : e[1] = name
  THEN (CHOOSE e \in book_mapping : e[1] = name)[2]
  ELSE 0

\* bk = book_mapping.get(book_raw); if not bk: retry with the ordinal
\* suffixes rewritten
ResolveBook(book_raw) ==
  LET bk == book_mapping_get(book_raw) IN
  IF bk # 0 THEN bk
  ELSE book_mapping_get(
         replace(replace(replace(book_raw, <<"il", "seo">>, <<"1", "seo">>),
                         <<"i", "seo">>, <<"2", "seo">>),
                 <<"sam", "seo">>, <<"3", "seo">>))

(***************************************************************************)
(* The regular expressions.  A pattern is a sequence of items: a character *)
(* class with a greedy repetition count min..max (max = 0: unbounded), or  *)
(* an optional group of items.                                             *)
(***************************************************************************)
Cls(tag, cls, min, max) ==
  [kind |-> "cls", tag |-> tag, cls |-> cls, min |-> min, max |-> max, sub |-> <<>>]
Opt(sub) ==
  [kind |-> "opt", tag |-> "", cls |-> {}, min |-> 0, max |-> 0, sub |-> sub]

BookItems ==
  << Cls("hangul", Hangul, 1, 0), Cls("booknum", Digit, 0, 0),
     Cls("seo", {"seo"}, 0, 1), Cls("ws", Space, 0, 0) >>

\* ([ga-hih]+[0-9]*(seo)?)\s*(\d+):(\d+)[~-](?:(\d+):)?(\d+)
pattern_range ==
  BookItems \o
  << Cls("g2", Digit, 1, 0), Cls("colon", {":"}, 1, 1), Cls("g3", Digit, 1, 0),
     Cls("sep", {"~", "-"}, 1, 1),
     Opt(<< Cls("g4", Digit, 1, 0), Cls("colon2", {":"}, 1, 1) >>),
     Cls("g5", Digit, 1, 0) >>

\* ([ga-hih]+[0-9]*(seo)?)\s*(\d+):(\d+)
pattern_single ==
  BookItems \o
  << Cls("g2", Digit, 1, 0), Cls("colon", {":"}, 1, 1), Cls("g3", Digit, 1, 0) >>

\* number of consecutive characters of class cls starting at position p
RECURSIVE Run(_, _, _)
Run(cls, t, p) ==
  IF p <= Len(t) /\ t[p] \in cls THEN 1 + Run(cls, t, p + 1) ELSE 0

Fail == [ok |-> FALSE, caps |-> <<>>, end |-> 0]

\* Backtracking match of items against t at position p: the first success
\* in the engine's order (longest repetition first, optional group first).
\* Repeat tries n, n-1, .., it.min repetitions of the head item.
RECURSIVE Match(_, _, _), Repeat(_, _, _, _)
Match(items, t, p) ==
  IF items = <<>> THEN [ok |-> TRUE, caps |-> <<>>, end |-> p]
  ELSE
    LET it == Head(items) IN
    IF it.kind = "opt"
    THEN LET taken == Match(it.sub \o Tail(items), t, p) IN
         IF taken.ok THEN taken ELSE Match(Tail(items), t, p)
    ELSE
      LET run == Run(it.cls, t, p) IN
      Repeat(items, t, p, IF it.max = 0 \/ run < it.max THEN run ELSE it.max)
Repeat(items, t, p, n) ==
  LET it == Head(items) IN
  IF n < it.min THEN Fail
  ELSE LET r == Match(Tail(items), t, p + n) IN
       IF r.ok
       THEN [ok   |-> TRUE,
             caps |-> <<[tag |-> it.tag, from |-> p, to |-> p + n]>> \o r.caps,
             end  |-> r.end]
       ELSE Repeat(items, t, p, n - 1)

Cap(caps, tag) == CHOOSE c \in {caps[k] : k \in DOMAIN caps} : c.tag = tag
HasCap(caps, tag) == \E k \in DOMAIN caps : caps[k].tag = tag
Slice(t, from, to) == SubSeq(t, from, to - 1)

\* the match object: group(1)..group(5), start and end
MatchObject(t, r) ==
  [g1    |-> Slice(t, Cap(r.caps, "hangul").from, Cap(r.caps, "seo").to),
   g2    |-> Slice(t, Cap(r.caps, "g2").from, Cap(r.caps, "g2").to),
   g3    |-> Slice(t, Cap(r.caps, "g3").from, Cap(r.caps, "g3").to),
   g4    |-> IF HasCap(r.caps, "g4")
             THEN Some(Slice(t, Cap(r.caps, "g4").from, Cap(r.caps, "g4").to))
             ELSE None,
   g5    |-> IF HasCap(r.caps, "g5")
             THEN Some(Slice(t, Cap(r.caps, "g5").from, Cap(r.caps, "g5").to))
             ELSE None,
   start |-> Cap(r.caps, "hangul").from,
   end   |-> r.end]

\* pattern.finditer(t): the non-overlapping matches, left to right
RECURSIVE finditer(_, _, _)
finditer(pattern, t, pos) ==
  IF pos > Len(t) THEN <<>>
  ELSE LET r == Match(pattern, t, pos) IN
       IF r.ok THEN <<MatchObject(t, r)>> \o finditer(pattern, t, r.end)
       ELSE finditer(pattern, t, pos + 1)

(***************************************************************************)
(* get_qt_schedule.  doc is what the retrieval delivers: None when         *)
(* requests raises, else the two sections of the page,                     *)
(*   table: None or the rows (tr) of div.calendar-table, each a sequence   *)
(*          of cells (td) [d, b]: the text of span.day and of span.bible,  *)
(*          None where the span is missing;                                *)
(*   list:  None or the rows (tr) of div.calendar-list, each               *)
(*          [person, t, n, ti, v]: whether the row has class "person",     *)
(*          then per td (time, name, title): None if the td is missing,    *)
(*          else Some(None) if it has no span, else Some(Some(text));      *)
(*          v: the text of td.views or None.                               *)
(* schedule_data is the dict, as its (key, value) pairs in insertion order.*)
(***************************************************************************)
Rec(day, bib, week, title) ==
  [day |-> day, bible |-> bib, week |-> week, title |-> title]

\* schedule_data[key] = val: an existing key keeps its place
DictSet(d, key, val) ==
  IF \E k \in DOMAIN d : d[k].key = key
  THEN [k \in DOMAIN d |-> IF d[k].key = key THEN [key |-> key, val |-> val] ELSE d[k]]
  ELSE Append(d, [key |-> key, val |-> val])

DictValues(d) == [k \in DOMAIN d |-> d[k].val]

\* text.strip().replace('\xa0', ' ')
Normalize(text) == replace(strip(text), <<"nbsp">>, <<" ">>)

\* one td of the table view
TableCell(d, cell) ==
  IF cell.d # None /\ cell.b # None
  THEN LET day == strip(cell.d[1])
           bib == Normalize(cell.b[1])
       IN IF day # <<>> THEN DictSet(d, day, Rec(day, bib, None, None)) ELSE d
  ELSE d

RECURSIVE TableCells(_, _)
TableCells(d, cells) ==
  IF cells = <<>> THEN d ELSE TableCells(TableCell(d, Head(cells)), Tail(cells))

RECURSIVE TableRows(_, _)
TableRows(d, rows) ==
  IF rows = <<>> THEN d ELSE TableRows(TableCells(d, Head(rows)), Tail(rows))

\* for row in table_view.find_all('tr')[1:]
TablePassResult(d, table) ==
  IF table = None \/ table[1] = <<>> THEN d ELSE TableRows(d, Tail(table[1]))

\* the list rows the loop visits: those of class "person"
PersonRows(rows) == SelectSeq(rows, LAMBDA tr : tr.person)

RowComplete(tr) == tr.t # None /\ tr.n # None /\ tr.ti # None /\ tr.v # None
\* x.find('span').text fails on a td without a span
RowRaises(tr) ==
  RowComplete(tr) /\ (tr.t[1] = None \/ tr.n[1] = None \/ tr.ti[1] = None)

\* ListRow that only supplements a record the table pass made: week and
\* title are filled in, the bible text is kept
ListRow_KeepTableBible(d, tr) ==
  IF RowComplete(tr)
  THEN LET day   == strip(tr.t[1][1])
           week  == strip(tr.n[1][1])
           title == strip(tr.ti[1][1])
           bib   == IF \E k \in DOMAIN d : d[k].key = day
                    THEN (CHOOSE e \in {d[k] : k \in DOMAIN d} : e.key = day).val.bible
                    ELSE Normalize(tr.v[1])
       IN DictSet(d, day, Rec(day, bib, Some(week), Some(title)))
  ELSE d

ListRow(d, tr) ==
  IF RowComplete(tr)
  THEN LET day   == strip(tr.t[1][1])
           week  == strip(tr.n[1][1])
           title == strip(tr.ti[1][1])
           bib   == Normalize(tr.v[1])
       IN DictSet(d, day, Rec(day, bib, Some(week), Some(title)))
  ELSE d

RECURSIVE ListRows(_, _)
ListRows(d, rows) ==
  IF rows = <<>> THEN d ELSE ListRows(ListRow(d, Head(rows)), Tail(rows))

\* int(s) raises ValueError unless s is a digit string (the model's day
\* texts carry no sign and no underscore)
IsIntText(s) == s # <<>> /\ \A k \in DOMAIN s : s[k] \in Digit

\* sorted(values, key=lambda x: int(x['day'])): stable insertion
RECURSIVE InsertByDay(_, _)
InsertByDay(sorted, x) ==
  IF sorted = <<>> THEN <<x>>
  ELSE IF int(sorted[Len(sorted)].day) <= int(x.day) THEN Append(sorted, x)
       ELSE Append(InsertByDay(SubSeq(sorted, 1, Len(sorted) - 1), x), sorted[Len(sorted)])

RECURSIVE SortedByDay(_)
SortedByDay(values) ==
  IF values = <<>> THEN <<>>
  ELSE InsertByDay(SortedByDay(SubSeq(values, 1, Len(values) - 1)), values[Len(values)])

SchedUnchanged ==
  UNCHANGED <<entry, timestamp_ms_str, timezone_str, civil, doc, bible,
              bible_text_input, matches, mi, results, qt_data, response, nParse>>

\* FetchFail that swallows the error and returns an empty list
FetchFail_Silent ==
  /\ pc = "fetch"
  /\ doc = None
  /\ nFetch' = nFetch + 1
  /\ sched' = Some(<<>>)
  /\ pc' = "got_sched"
  /\ UNCHANGED <<schedule_data, log>>
  /\ SchedUnchanged

\* requests.get / raise_for_status raises: print the error, return None
FetchFail ==
  /\ pc = "fetch"
  /\ doc = None
  /\ nFetch' = nFetch + 1
  /\ log' = Append(log, "fetch_error")
  /\ sched' = None
  /\ pc' = "got_sched"
  /\ UNCHANGED schedule_data
  /\ SchedUnchanged

\* the document arrived: schedule_data = {}
FetchOk ==
  /\ pc = "fetch"
  /\ doc # None
  /\ nFetch' = nFetch + 1
  /\ schedule_data' = <<>>
  /\ pc' = "table_pass"
  /\ UNCHANGED <<sched, log>>
  /\ SchedUnchanged

\* 1. the table view
TablePass ==
  /\ pc = "table_pass"
  /\ schedule_data' = TablePassResult(schedule_data, doc[1].table)
  /\ pc' = "list_pass"
  /\ UNCHANGED <<sched, log, nFetch>>
  /\ SchedUnchanged

\* 2. the list view; the loop stops at the first row that raises
ListPass ==
  /\ pc = "list_pass"
  /\ LET rows == IF doc[1].list = None THEN <<>> ELSE PersonRows(doc[1].list[1])
         bad  == {k \in DOMAIN rows : RowRaises(rows[k])}
     IN IF bad = {}
        THEN /\ schedule_data' = ListRows(schedule_data, rows)
             /\ pc' = "sort"
        ELSE /\ schedule_data' = ListRows(schedule_data, SubSeq(rows, 1, Min(bad) - 1))
             /\ pc' = "raised"
  /\ UNCHANGED <<sched, log, nFetch>>
  /\ SchedUnchanged

\* return sorted(schedule_data.values(), key=int(day))
SortReturn ==
  /\ pc = "sort"
  /\ LET values == DictValues(schedule_data) IN
     IF \A k \in DOMAIN values : IsIntText(values[k].day)
     THEN /\ sched' = Some(SortedByDay(values))
          /\ pc' = "got_sched"
     ELSE /\ sched' = sched
          /\ pc' = "raised"
  /\ UNCHANGED <<schedule_data, log, nFetch>>
  /\ SchedUnchanged

SchedNext ==
  \/ FetchFail
  \/ FetchOk
  \/ TablePass
  \/ ListPass
  \/ SortReturn

(***************************************************************************)
(* Documents handed to get_qt_schedule.                                    *)
(***************************************************************************)
MaxCells == 2
MaxRows == 2

SeqsUpTo(S, n) == UNION {[1 .. k -> S] : k \in 0 .. n}

\* "\xa0(Psalms) 1:1 " and "(Numbers) 23:27~24:9"
TableText == <<"nbsp", "si", "pyeon", "nbsp", "1", ":", "1", " ">>
ListText == <<"min", "su", "gi", " ", "2", "3", ":", "2", "7", "~", "2", "4", ":", "9">>
WeekText == <<" ", "wol">>
TitleText == <<"T", " ">>

HeaderRow == << [d |-> Some(<<"9">>), b |-> Some(TableText)] >>

TableCellSet ==
  { [d |-> Some(<<"1">>), b |-> Some(TableText)],
    [d |-> Some(<<" ", "2", "nbsp">>), b |-> Some(TableText)],
    [d |-> Some(<<" ">>), b |-> Some(TableText)],
    [d |-> Some(<<"1">>), b |-> None] }

Tr(person, t, n, ti, v) ==
  [person |-> person, t |-> t, n |-> n, ti |-> ti, v |-> v]
FullTr(day, bib) ==
  Tr(TRUE, Some(Some(day)), Some(Some(WeekText)), Some(Some(TitleText)), Some(bib))

ListTrSet ==
  {FullTr(day, ListText) :
     day \in {<<"1">>, <<"0", "1">>, <<"2", " ">>, <<"3", "2">>, <<>>}}
  \cup { Tr(FALSE, Some(Some(<<"1">>)), Some(Some(WeekText)), Some(Some(TitleText)),
            Some(ListText)),
         Tr(TRUE, None, Some(Some(WeekText)), Some(Some(TitleText)), Some(ListText)),
         Tr(TRUE, Some(Some(<<"1">>)), Some(None), Some(Some(TitleText)), Some(ListText)) }

Page(table, list) == Some([table |-> table, list |-> list])

SchedDocs ==
  {None}
  \cup {Page(table, list) :
          table \in {None, Some(<<>>)}
                    \cup {Some(<<HeaderRow, row>>) : row \in SeqsUpTo(TableCellSet, MaxCells)},
          list \in {None} \cup {Some(rows) : rows \in SeqsUpTo(ListTrSet, MaxRows)}}

InitSched ==
  /\ pc = "fetch"
  /\ doc \in SchedDocs
  /\ civil = Some([year |-> 2025, month |-> 2, day |-> 1])
  /\ schedule_data = <<>> /\ sched = None
  /\ log = <<>>
  /\ entry = "schedule"
  /\ timestamp_ms_str = None /\ timezone_str = ""
  /\ bible = None /\ bible_text_input = <<>> /\ matches = <<>> /\ mi = 0
  /\ results = <<>> /\ qt_data = None /\ response = None
  /\ nFetch = 0 /\ nParse = 0

SpecSched == InitSched /\ [][SchedNext]_vars

(***************************************************************************)
(* parse_bible_text.  matches is what the iterator of the running for loop *)
(* yields, mi the position of the loop in it; log collects the printed     *)
(* warnings.                                                               *)
(***************************************************************************)
Unit(bk, ch, s, e) == [book |-> bk, chapter |-> ch, start |-> s, end |-> e]


\* RangeUnits with the test on the chapters replaced by a test on group 4
RangeUnits_SplitOnGroup4(m, bk) ==
  LET start_ch == int(m.g2)
      start_vs == int(m.g3)
      end_ch   == IF m.g4 # None /\ m.g4[1] # <<>> THEN int(m.g4[1]) ELSE start_ch
      end_vs   == int(m.g5[1])
  IN IF m.g4 # None
     THEN << Unit(bk, start_ch, start_vs, start_vs), Unit(bk, end_ch, end_vs, end_vs) >>
     ELSE << Unit(bk, start_ch, start_vs, end_vs) >>

\* body of the range loop after the book is resolved
RangeUnits(m, bk) ==
  LET start_ch == int(m.g2)
      start_vs == int(m.g3)
      end_ch   == IF m.g4 # None /\ m.g4[1] # <<>> THEN int(m.g4[1]) ELSE start_ch
      end_vs   == int(m.g5[1])
  IN IF start_ch # end_ch
     THEN << Unit(bk, start_ch, start_vs, start_vs), Unit(bk, end_ch, end_vs, end_vs) >>
     ELSE << Unit(bk, start_ch, start_vs, end_vs) >>

\* body of the single loop after the book is resolved
SingleUnits(m, bk) ==
  LET chapter == int(m.g2)
      verse   == int(m.g3)
  IN << Unit(bk, chapter, verse, verse) >>

ParseUnchanged ==
  UNCHANGED <<entry, timestamp_ms_str, timezone_str, civil, doc, schedule_data,
              sched, bible, bible_text_input, qt_data, response, nFetch, nParse>>

\* RangeSkip with break in place of continue
RangeSkip_Break ==
  /\ pc = "range_loop"
  /\ mi <= Len(matches)
  /\ ResolveBook(matches[mi].g1) = 0
  /\ log' = Append(log, "unknown_book_range")
  /\ pc' = "single_loop"
  /\ matches' = finditer(pattern_single, bible_text_input, 1)
  /\ mi' = 1
  /\ UNCHANGED results
  /\ ParseUnchanged

\* range loop: unknown book, print the warning and continue
RangeSkip ==
  /\ pc = "range_loop"
  /\ mi <= Len(matches)
  /\ ResolveBook(matches[mi].g1) = 0
  /\ log' = Append(log, "unknown_book_range")
  /\ mi' = mi + 1
  /\ UNCHANGED <<pc, matches, results>>
  /\ ParseUnchanged

\* RangeEmit without the return: the loop goes on to the next match
RangeEmit_NoReturn ==
  /\ pc = "range_loop"
  /\ mi <= Len(matches)
  /\ ResolveBook(matches[mi].g1) # 0
  /\ results' = results \o RangeUnits(matches[mi], ResolveBook(matches[mi].g1))
  /\ mi' = mi + 1
  /\ UNCHANGED <<pc, matches, log>>
  /\ ParseUnchanged

\* range loop: book resolved, append the unit(s) and return results
RangeEmit ==
  /\ pc = "range_loop"
  /\ mi <= Len(matches)
  /\ ResolveBook(matches[mi].g1) # 0
  /\ results' = results \o RangeUnits(matches[mi], ResolveBook(matches[mi].g1))
  /\ pc' = "parse_return"
  /\ UNCHANGED <<matches, mi, log>>
  /\ ParseUnchanged

\* range loop ran out of matches: go on to the single loop
RangeExhausted ==
  /\ pc = "range_loop"
  /\ mi > Len(matches)
  /\ pc' = "single_loop"
  /\ matches' = finditer(pattern_single, bible_text_input, 1)
  /\ mi' = 1
  /\ UNCHANGED <<results, log>>
  /\ ParseUnchanged

\* single loop: unknown book, print the warning and continue
SingleSkip ==
  /\ pc = "single_loop"
  /\ mi <= Len(matches)
  /\ ResolveBook(matches[mi].g1) = 0
  /\ log' = Append(log, "unknown_book_single")
  /\ mi' = mi + 1
  /\ UNCHANGED <<pc, matches, results>>
  /\ ParseUnchanged

\* single loop: book resolved, append the unit and return results
SingleEmit ==
  /\ pc = "single_loop"
  /\ mi <= Len(matches)
  /\ ResolveBook(matches[mi].g1) # 0
  /\ results' = results \o SingleUnits(matches[mi], ResolveBook(matches[mi].g1))
  /\ pc' = "parse_return"
  /\ UNCHANGED <<matches, mi, log>>
  /\ ParseUnchanged

\* ParseFallThrough without the strip() in the test
ParseFallThrough_NoStrip ==
  /\ pc = "single_loop"
  /\ mi > Len(matches)
  /\ log' = IF results = <<>> /\ bible_text_input # <<>>
            THEN Append(log, "failed_to_parse")
            ELSE log
  /\ pc' = "parse_return"
  /\ UNCHANGED <<matches, mi, results>>
  /\ ParseUnchanged

\* both loops ran out: warn if nothing was parsed from a non-blank text,
\* return results
ParseFallThrough ==
  /\ pc = "single_loop"
  /\ mi > Len(matches)
  /\ log' = IF results = <<>> /\ strip(bible_text_input) # <<>>
            THEN Append(log, "failed_to_parse")
            ELSE log
  /\ pc' = "parse_return"
  /\ UNCHANGED <<matches, mi, results>>
  /\ ParseUnchanged

ParseNext ==
  \/ RangeSkip
  \/ RangeEmit
  \/ RangeExhausted
  \/ SingleSkip
  \/ SingleEmit
  \/ ParseFallThrough

(***************************************************************************)
(* Reference texts handed to parse_bible_text.                             *)
(***************************************************************************)
MaxChapter == 1
MaxVerse == 1

\* str(n) for 0 <= n < 100
Decimal(n) ==
  LET d(k) == CHOOSE c \in Digit : DigitVal(c) = k IN
  IF n < 10 THEN <<d(n)>> ELSE <<d(n \div 10), d(n % 10)>>

ChapterTexts == {Decimal(n) : n \in 0 .. MaxChapter} \cup {<<"2", "3">>, <<"0", "1">>}
VerseTexts == {Decimal(n) : n \in 0 .. MaxVerse} \cup {<<"2", "7">>}

BookTexts ==
  { <<"si", "pyeon">>, <<"min", "su", "gi">>, <<"yo", "han", "il", "seo">>,
    <<"yo", "han", "1", "seo">>, <<"ga", "na">> }

RangeTails ==
  {<<>>}
  \cup {<<sep>> \o v : sep \in {"~", "-"}, v \in VerseTexts}
  \cup {<<sep>> \o c \o <<":">> \o v : sep \in {"~"}, c \in ChapterTexts, v \in VerseTexts}

FirstRefs ==
  {b \o sp \o c \o <<":">> \o v \o tl :
     b \in BookTexts, sp \in {<<>>, <<" ">>}, c \in ChapterTexts,
     v \in VerseTexts, tl \in RangeTails}

MoreRefs ==
  { <<>>,
    <<",", " ", "si", "pyeon", " ", "1", ":", "1">>,
    <<",", " ", "min", "su", "gi", " ", "1", ":", "2", "~", "3">>,
    <<",", " ", "ga", "na", " ", "2", ":", "3", "-", "4", ":", "5">> }

OddTexts ==
  { <<>>, <<" ">>, <<" ", "nbsp">>, <<"ga", "na", "da">>, <<"1", ":", "2">>,
    <<"si", "pyeon", " ", "1">>, <<"si", "pyeon", "nbsp", "1", ":", "1">> }

ParseInputs == {a \o b : a \in FirstRefs, b \in MoreRefs} \cup OddTexts

InitParse ==
  /\ pc = "range_loop"
  /\ bible_text_input \in ParseInputs
  /\ matches = finditer(pattern_range, bible_text_input, 1)
  /\ mi = 1
  /\ results = <<>>
  /\ log = <<>>
  /\ entry = "parse"
  /\ timestamp_ms_str = None /\ timezone_str = ""
  /\ civil = None /\ doc = None /\ schedule_data = <<>> /\ sched = None
  /\ bible = None /\ qt_data = None /\ response = None
  /\ nFetch = 0 /\ nParse = 1

SpecParse == InitParse /\ [][ParseNext]_vars

(***************************************************************************)
(* timestamp_to_qt_data_ms and the handler get_qt_bible_data.  The         *)
(* timestamp is kept as the text of the query parameter (None: absent);    *)
(* datetime and pytz are libraries: which texts int() accepts, which       *)
(* instants datetime can represent, which zone names pytz knows and the    *)
(* civil date of an instant in a zone are their answers.                   *)
(***************************************************************************)
IntTexts == {"1747551764480", "99999999999999999999"}
UnrepresentableTexts == {"99999999999999999999"}
KnownZones == {"Asia/Seoul", "America/New_York"}
CivilDates ==
  { [year |-> 2025, month |-> 2, day |-> 1],
    [year |-> 2025, month |-> 2, day |-> 2],
    [year |-> 2025, month |-> 5, day |-> 31] }

Reply(status, body, data) == Some([status |-> status, body |-> body, data |-> data])

CallUnchanged ==
  UNCHANGED <<entry, timestamp_ms_str, timezone_str, doc, schedule_data, nFetch>>

\* get_qt_bible_data: a missing, empty or non-integer timestamp_ms or an
\* unknown timezone is answered with 400
HandlerReject ==
  /\ pc = "handler"
  /\ \/ /\ timestamp_ms_str = None \/ timestamp_ms_str = Some("")
        /\ response' = Reply(400, "timestamp_ms parameter is required", <<>>)
     \/ /\ timestamp_ms_str # None /\ timestamp_ms_str # Some("")
        /\ timestamp_ms_str[1] \notin IntTexts
        /\ response' = Reply(400, "Invalid timestamp_ms format", <<>>)
     \/ /\ timestamp_ms_str # None /\ timestamp_ms_str[1] \in IntTexts
        /\ timezone_str \notin KnownZones
        /\ response' = Reply(400, "Invalid timezone", <<>>)
  /\ pc' = "done"
  /\ UNCHANGED <<civil, sched, bible, bible_text_input, matches, mi, results,
                 log, qt_data, nParse>>
  /\ CallUnchanged

\* HandlerCall without the check of the timezone
HandlerCall_NoZoneCheck ==
  /\ pc = "handler"
  /\ timestamp_ms_str # None /\ timestamp_ms_str[1] \in IntTexts
  /\ pc' = "call"
  /\ UNCHANGED <<civil, sched, bible, bible_text_input, matches, mi, results,
                 log, qt_data, response, nParse>>
  /\ CallUnchanged

\* get_qt_bible_data: the arguments are valid, call timestamp_to_qt_data_ms
HandlerCall ==
  /\ pc = "handler"
  /\ timestamp_ms_str # None /\ timestamp_ms_str[1] \in IntTexts
  /\ timezone_str \in KnownZones
  /\ pc' = "call"
  /\ UNCHANGED <<civil, sched, bible, bible_text_input, matches, mi, results,
                 log, qt_data, response, nParse>>
  /\ CallUnchanged

\* datetime.fromtimestamp raises (OverflowError, ValueError)
ConvertRaises ==
  /\ pc = "call"
  /\ timestamp_ms_str[1] \in UnrepresentableTexts
  /\ pc' = "raised"
  /\ UNCHANGED <<civil, sched, bible, bible_text_input, matches, mi, results,
                 log, qt_data, response, nParse>>
  /\ CallUnchanged

\* pytz.timezone raises UnknownTimeZoneError: print the error, return []
UnknownTimeZone ==
  /\ pc = "call"
  /\ timestamp_ms_str[1] \notin UnrepresentableTexts
  /\ timezone_str \notin KnownZones
  /\ log' = Append(log, "unknown_timezone")
  /\ qt_data' = Some(<<>>)
  /\ pc' = "returned"
  /\ UNCHANGED <<civil, sched, bible, bible_text_input, matches, mi, results,
                 response, nParse>>
  /\ CallUnchanged

\* dt_localized = dt_utc.astimezone(target_timezone); call get_qt_schedule
ConvertDate ==
  /\ pc = "call"
  /\ timestamp_ms_str[1] \notin UnrepresentableTexts
  /\ timezone_str \in KnownZones
  /\ \E c \in CivilDates : civil' = Some(c)
  /\ pc' = "fetch"
  /\ UNCHANGED <<sched, bible, bible_text_input, matches, mi, results,
                 log, qt_data, response, nParse>>
  /\ CallUnchanged

\* the record of the civil day: next(... for i in sched if int(i['day']) == day)
DayHits(list, day) == {k \in DOMAIN list : int(list[k].day) = day}
SelectBible(list, day) ==
  IF DayHits(list, day) = {} THEN None ELSE Some(list[Min(DayHits(list, day))].bible)

\* Python truth of an optional sequence: None and the empty one are false
Truthy(x) == IF x = None THEN FALSE ELSE x[1] # <<>>

\* if not sched: return []
NoSchedule ==
  /\ pc = "got_sched"
  /\ ~Truthy(sched)
  /\ qt_data' = Some(<<>>)
  /\ pc' = "returned"
  /\ UNCHANGED <<civil, sched, bible, bible_text_input, matches, mi, results,
                 log, response, nParse>>
  /\ CallUnchanged

\* no record of the day, or its bible is empty: return []
NoBible ==
  /\ pc = "got_sched"
  /\ Truthy(sched)
  /\ bible' = SelectBible(sched[1], civil[1].day)
  /\ ~Truthy(bible')
  /\ qt_data' = Some(<<>>)
  /\ pc' = "returned"
  /\ UNCHANGED <<civil, sched, bible_text_input, matches, mi, results,
                 log, response, nParse>>
  /\ CallUnchanged

\* CallParser with "is not None" in place of the truth test
CallParser_Unguarded ==
  /\ pc = "got_sched"
  /\ Truthy(sched)
  /\ bible' = SelectBible(sched[1], civil[1].day)
  /\ bible' # None
  /\ bible_text_input' = bible'[1]
  /\ matches' = finditer(pattern_range, bible'[1], 1)
  /\ mi' = 1
  /\ results' = <<>>
  /\ nParse' = nParse + 1
  /\ pc' = "range_loop"
  /\ UNCHANGED <<civil, sched, log, qt_data, response>>
  /\ CallUnchanged

\* return parse_bible_text(bible): enter the parser
CallParser ==
  /\ pc = "got_sched"
  /\ Truthy(sched)
  /\ bible' = SelectBible(sched[1], civil[1].day)
  /\ Truthy(bible')
  /\ bible_text_input' = bible'[1]
  /\ matches' = finditer(pattern_range, bible'[1], 1)
  /\ mi' = 1
  /\ results' = <<>>
  /\ nParse' = nParse + 1
  /\ pc' = "range_loop"
  /\ UNCHANGED <<civil, sched, log, qt_data, response>>
  /\ CallUnchanged

\* the parser returned: return its results
ReturnParsed ==
  /\ pc = "parse_return"
  /\ entry # "parse"
  /\ qt_data' = Some(results)
  /\ pc' = "returned"
  /\ UNCHANGED <<civil, sched, bible, bible_text_input, matches, mi, results,
                 log, response, nParse>>
  /\ CallUnchanged

\* except Exception: print the error, return []
CatchUnexpected ==
  /\ pc = "raised"
  /\ entry # "schedule"
  /\ log' = Append(log, "unexpected_error")
  /\ qt_data' = Some(<<>>)
  /\ pc' = "returned"
  /\ UNCHANGED <<civil, sched, bible, bible_text_input, matches, mi, results,
                 response, nParse>>
  /\ CallUnchanged

\* get_qt_bible_data: answer with the data, or with the no-data message
Respond ==
  /\ pc = "returned"
  /\ entry = "http"
  /\ response' = IF qt_data[1] = <<>>
                 THEN Reply(200, "No QT data found", <<>>)
                 ELSE Reply(200, "", qt_data[1])
  /\ pc' = "done"
  /\ UNCHANGED <<civil, sched, bible, bible_text_input, matches, mi, results,
                 log, qt_data, nParse>>
  /\ CallUnchanged

(***************************************************************************)
(* Requests.                                                               *)
(***************************************************************************)
PipeTexts ==
  { <<"si", "pyeon", " ", "1", ":", "1">>,
    <<"min", "su", "gi", " ", "2", "3", ":", "2", "7", "~", "2", "4", ":", "9">>,
    <<"ga", "na", " ", "1", ":", "2", "~", "3", ",", " ", "si", "pyeon", " ", "1", ":", "1">>,
    <<"ga", "na", " ", "1", ":", "1">>,
    <<"ga", "na", "da">>,
    <<" ">> }

PipeDocs ==
  {None}
  \cup {Page(table, list) :
          table \in {None}
                    \cup {Some(<<HeaderRow, <<[d |-> Some(<<"1">>), b |-> Some(x)]>>>>) :
                            x \in PipeTexts},
          list \in {None}
                   \cup {Some(<<FullTr(day, x)>>) :
                           day \in {<<"0", "1">>, <<"2">>}, x \in PipeTexts}
                   \cup {Some(<<FullTr(<<>>, ListText)>>),
                         Some(<<Tr(TRUE, Some(None), Some(Some(WeekText)),
                                   Some(Some(TitleText)), Some(ListText))>>)}}

TimestampArgs == {None, Some(""), Some("abc")} \cup {Some(x) : x \in IntTexts}
ZoneArgs == {None, Some("Asia/Seoul"), Some("America/New_York"), Some("Mars/Phobos")}

\* timezone_str defaults to 'Asia/Seoul'
Init ==
  /\ entry \in {"http", "direct"}
  /\ timestamp_ms_str \in TimestampArgs
  /\ entry = "direct" => timestamp_ms_str # None /\ timestamp_ms_str[1] \in IntTexts
  /\ \E z \in ZoneArgs : timezone_str = IF z = None THEN "Asia/Seoul" ELSE z[1]
  /\ doc \in PipeDocs
  /\ pc = IF entry = "http" THEN "handler" ELSE "call"
  /\ civil = None /\ schedule_data = <<>> /\ sched = None
  /\ bible = None /\ bible_text_input = <<>> /\ matches = <<>> /\ mi = 0
  /\ results = <<>> /\ log = <<>> /\ qt_data = None /\ response = None
  /\ nFetch = 0 /\ nParse = 0

Next ==
  \/ HandlerReject
  \/ HandlerCall
  \/ ConvertRaises
  \/ UnknownTimeZone
  \/ ConvertDate
  \/ FetchFail
  \/ FetchOk
  \/ TablePass
  \/ ListPass
  \/ SortReturn
  \/ NoSchedule
  \/ NoBible
  \/ CallParser
  \/ RangeSkip
  \/ RangeEmit
  \/ RangeExhausted
  \/ SingleSkip
  \/ SingleEmit
  \/ ParseFallThrough
  \/ ReturnParsed
  \/ CatchUnexpected
  \/ Respond

Spec == Init /\ [][Next]_vars

(***************************************************************************)
(* Properties of parse_bible_text (checked under SpecParse).               *)
(***************************************************************************)
AllRange == finditer(pattern_range, bible_text_input, 1)
AllSingle == finditer(pattern_single, bible_text_input, 1)
Resolvable(ms) == {k \in DOMAIN ms : ResolveBook(ms[k].g1) # 0}
Returned == pc = "parse_return"
Warnings(n, w) == [k \in 1 .. n |-> w]

\* C1, as claimed: when the first range-form match names a resolvable book,
\* the result is one unit {book, chapter1, startVerse, endVerse} if the second
\* chapter is absent and the two boundary units whenever it is present, also
\* when it equals chapter1.
C1_AsClaimed ==
  (Returned /\ AllRange # <<>> /\ ResolveBook(AllRange[1].g1) # 0) =>
    LET m  == AllRange[1]
        bk == ResolveBook(m.g1)
    IN IF m.g4 = None
       THEN results = << Unit(bk, int(m.g2), int(m.g3), int(m.g5[1])) >>
       ELSE results = << Unit(bk, int(m.g2), int(m.g3), int(m.g3)),
                         Unit(bk, int(m.g4[1]), int(m.g5[1]), int(m.g5[1])) >>

\* C1, amended: when the first range-form match names a resolvable book, the
\* result is the two boundary units exactly when the second chapter is
\* present and differs in value from chapter1; when it is absent or equal to
\* chapter1 the result is the one unit {book, chapter1, startVerse, endVerse}.
C1_RangeShape ==
  (Returned /\ AllRange # <<>> /\ ResolveBook(AllRange[1].g1) # 0) =>
    LET m  == AllRange[1]
        bk == ResolveBook(m.g1)
    IN IF m.g4 # None /\ int(m.g4[1]) # int(m.g2)
       THEN results = << Unit(bk, int(m.g2), int(m.g3), int(m.g3)),
                         Unit(bk, int(m.g4[1]), int(m.g5[1]), int(m.g5[1])) >>
       ELSE results = << Unit(bk, int(m.g2), int(m.g3), int(m.g5[1])) >>

\* C1 witness: a resolvable first range match whose second chapter is written
\* and equals chapter1 has been parsed to one unit.
C1_Witness ==
  /\ Returned /\ AllRange # <<>> /\ ResolveBook(AllRange[1].g1) # 0
  /\ AllRange[1].g4 # None /\ int(AllRange[1].g4[1]) = int(AllRange[1].g2)
  /\ Len(results) = 1

\* C2, as claimed: every returned unit has book in 1..66, chapter, start and
\* end at least 1, and end at least start.
C2_AsClaimed ==
  \A k \in DOMAIN results :
    /\ results[k].book \in 1 .. 66
    /\ results[k].chapter >= 1
    /\ results[k].start >= 1
    /\ results[k].end >= 1
    /\ results[k].end >= results[k].start

\* C7: a blank (empty or whitespace-only) text returns no unit and logs no
\* parse failure; a non-blank text that yields no unit returns no unit with the
\* parse failure logged.
C7_BlankIsSilent ==
  Returned =>
    /\ strip(bible_text_input) = <<>> =>
         results = <<>> /\ \A k \in DOMAIN log : log[k] # "failed_to_parse"
    /\ (strip(bible_text_input) # <<>> /\ results = <<>>) =>
         log # <<>> /\ log[Len(log)] = "failed_to_parse"

\* C7 witness: a whitespace-only, non-empty text has been parsed.
C7_Witness ==
  Returned /\ bible_text_input # <<>> /\ strip(bible_text_input) = <<>>

\* C8, as claimed: a step of the single loop produces a unit only if the text
\* has no range-form match at all.
C8_AsClaimed ==
  [][(pc = "single_loop" /\ results' # results) => AllRange = <<>>]_vars

\* C8, amended: a step of the single loop produces a unit only if the text has
\* no range-form match whose book name resolves (range-form matches with
\* unresolvable books do not keep the single form from being used).
C8_SingleOnlyAfterRange ==
  [][(pc = "single_loop" /\ results' # results) => Resolvable(AllRange) = {}]_vars

\* C8 witness: a text with a range-form match, none of them resolvable, has
\* been parsed to a unit (by the single form).
C8_Witness ==
  Returned /\ AllRange # <<>> /\ Resolvable(AllRange) = {} /\ results # <<>>

\* C9: the result comes from the first match of the tier whose book resolves:
\* every match before it was skipped with a warning, every match after it is
\* ignored, and there are never more than two units.
C9_FirstResolvableWins ==
  Returned =>
    /\ Len(results) <= 2
    /\ IF Resolvable(AllRange) # {}
       THEN LET k == Min(Resolvable(AllRange)) IN
            /\ results = RangeUnits(AllRange[k], ResolveBook(AllRange[k].g1))
            /\ log = Warnings(k - 1, "unknown_book_range")
       ELSE IF Resolvable(AllSingle) # {}
       THEN LET k == Min(Resolvable(AllSingle)) IN
            /\ results = SingleUnits(AllSingle[k], ResolveBook(AllSingle[k].g1))
            /\ log = Warnings(Len(AllRange), "unknown_book_range")
                       \o Warnings(k - 1, "unknown_book_single")
       ELSE results = <<>>

\* C9 witness: a text with two resolvable range-form matches has been parsed,
\* the second one ignored.
C9_Witness ==
  Returned /\ Cardinality(Resolvable(AllRange)) >= 2 /\ Len(results) = 1

(***************************************************************************)
(* Properties of get_qt_schedule (checked under SpecSched).  A day is the  *)
(* day marker a pass extracts, stripped: the key of schedule_data.         *)
(***************************************************************************)
ScheduleReturned == pc = "got_sched" /\ sched # None

DaysInMonth(year, month) ==
  IF month = 2
  THEN IF (year % 4 = 0 /\ year % 100 # 0) \/ year % 400 = 0 THEN 29 ELSE 28
  ELSE IF month \in {4, 6, 9, 11} THEN 30 ELSE 31

\* C5, as claimed: the returned sequence is strictly ascending by numeric day
\* (so no two records share a numeric day) and every day lies in
\* 1..days-in-month.
C5_AsClaimed ==
  ScheduleReturned =>
    /\ \A k \in DOMAIN sched[1] :
         int(sched[1][k].day) \in 1 .. DaysInMonth(civil[1].year, civil[1].month)
    /\ \A k \in 1 .. Len(sched[1]) - 1 :
         int(sched[1][k].day) < int(sched[1][k + 1].day)

RECURSIVE Flatten(_)
Flatten(rows) == IF rows = <<>> THEN <<>> ELSE Head(rows) \o Flatten(Tail(rows))

\* the cells and rows of the document that carry a record, in document order
DataCells ==
  IF doc[1].table = None \/ doc[1].table[1] = <<>> THEN <<>>
  ELSE SelectSeq(Flatten(Tail(doc[1].table[1])),
                 LAMBDA c : c.d # None /\ c.b # None /\ strip(c.d[1]) # <<>>)
DataRows ==
  IF doc[1].list = None THEN <<>>
  ELSE SelectSeq(doc[1].list[1],
                 LAMBDA tr : tr.person /\ tr.t # None /\ tr.n # None
                             /\ tr.ti # None /\ tr.v # None)
TableDays == {strip(DataCells[k].d[1]) : k \in DOMAIN DataCells}
ListDays == {strip(DataRows[k].t[1][1]) : k \in DOMAIN DataRows}
LastCell(day) ==
  DataCells[Max({k \in DOMAIN DataCells : strip(DataCells[k].d[1]) = day})]
LastRow(day) ==
  DataRows[Max({k \in DOMAIN DataRows : strip(DataRows[k].t[1][1]) = day})]

FunctionReturned == pc = "returned"
UnknownZone == timezone_str \notin KnownZones

\* C3, as claimed: a call of timestamp_to_qt_data_ms with an unknown timezone
\* never returns the empty sequence.
C3_AsClaimed ==
  (FunctionReturned /\ UnknownZone) => qt_data # Some(<<>>)

\* C3, amended: timestamp_to_qt_data_ms called with an unknown timezone
\* returns the empty sequence, without any retrieval, after logging the
\* unknown timezone (or the unexpected error, when the timestamp is not
\* representable); only the handler get_qt_bible_data tells the unknown
\* timezone apart: it answers 400 "Invalid timezone" and does not call the
\* function.
C3_UnknownZoneIsEmpty ==
  /\ (FunctionReturned /\ UnknownZone) =>
       /\ entry = "direct"
       /\ qt_data = Some(<<>>)
       /\ nFetch = 0
       /\ log = IF timestamp_ms_str[1] \in UnrepresentableTexts
                THEN <<"unexpected_error">> ELSE <<"unknown_timezone">>
  /\ (pc = "done" /\ UnknownZone /\ timestamp_ms_str # None
        /\ timestamp_ms_str[1] \in IntTexts) =>
       /\ response = Reply(400, "Invalid timezone", <<>>)
       /\ qt_data = None /\ log = <<>>

\* C3 witness: a direct call with an unknown timezone has returned, the
\* unknown timezone logged.
C3_Witness ==
  FunctionReturned /\ UnknownZone /\ entry = "direct" /\ log = <<"unknown_timezone">>

RetrievalFailed == nFetch = 1 /\ doc = None

\* C4, as claimed: after a failed retrieval timestamp_to_qt_data_ms does not
\* return the empty sequence that the degraded conditions return.
C4_AsClaimed ==
  (FunctionReturned /\ RetrievalFailed) => qt_data # Some(<<>>)

\* C4, amended: when the retrieval fails, get_qt_schedule logs the error and
\* returns None, and timestamp_to_qt_data_ms returns the empty sequence
\* without parsing, the same result the degraded conditions give; the handler
\* answers it with 200 and the no-data message.
C4_FetchFailureIsEmpty ==
  /\ (pc = "got_sched" /\ RetrievalFailed) =>
       sched = None /\ log = <<"fetch_error">>
  /\ (FunctionReturned /\ RetrievalFailed) =>
       qt_data = Some(<<>>) /\ nParse = 0 /\ log = <<"fetch_error">>
  /\ (pc = "done" /\ RetrievalFailed) =>
       response = Reply(200, "No QT data found", <<>>)

\* C4 witness: the handler has answered a request whose retrieval failed.
C4_Witness ==
  pc = "done" /\ RetrievalFailed /\ response # None

\* the records of the civil day that carry a non-empty text
DayRecords ==
  IF sched = None \/ civil = None THEN {}
  ELSE {k \in DOMAIN sched[1] :
          int(sched[1][k].day) = civil[1].day /\ sched[1][k].bible # <<>>}

\* C10: a call makes at most one retrieval and at most one parse; the parser
\* runs only after a successful retrieval, on the non-empty text of a record
\* of the civil day; when there is no such record, the function returns the
\* empty sequence without a parse.
C10_FetchThenParse ==
  /\ nFetch <= 1 /\ nParse <= 1
  /\ nParse = 1 =>
       /\ nFetch = 1 /\ doc # None /\ Truthy(sched)
       /\ \E k \in DayRecords : bible_text_input = sched[1][k].bible
  /\ (FunctionReturned /\ DayRecords = {}) =>
       qt_data = Some(<<>>) /\ nParse = 0

\* C10 witness: the function returned units after one retrieval and one parse.
C10_Witness ==
  FunctionReturned /\ nFetch = 1 /\ nParse = 1 /\ qt_data # Some(<<>>)

====
